---- MODULE Spec2Model ----
(***************************************************************************)
(* Model of the MarkItDown web converter.                                  *)
(*                                                                         *)
(*  Browser shape (src/src/App.vue): a Vue component that provisions a     *)
(*  Pyodide runtime lazily, stages the selected file in the runtime's      *)
(*  filesystem, calls the Python wrapper convert_file and shows the text.  *)
(*  Every async function is cut at its await points: one action runs the   *)
(*  code from one await to the next, as the single-threaded event loop     *)
(*  does.                                                                  *)
(*                                                                         *)
(*  Server shape (src/unnamed/part_002 is the request handler,             *)
(*  src/unnamed/part_001 the page that calls it).                          *)
(***************************************************************************)
EXTENDS Integers, Sequences, FiniteSets, TLC

(***************************************************************************)
(* Bounds.                                                                 *)
(***************************************************************************)
\* number of startConversion invocations explored in the browser shape
MaxCalls == 2
\* number of HTTP requests explored in the server shape
MaxReqs == 2
\* number of base-1024 digits of the byte counts given to formatSize
MaxDigits == 5

(***************************************************************************)
(* Values.                                                                 *)
(***************************************************************************)
\* `let pyodide: any = null`: 0 stands for null, runtimes are numbered from 1
NoEnv == 0

Runtimes == 1..MaxCalls
Calls == 1..MaxCalls

\* a filename is a sequence of characters
NoName == << >>
NameAP == << "a", ".", "p" >>
NameRVP == << "r", ".", "v", ".", "p" >>
NameR == << "R" >>

\* `file = ref<File | null>(null)`: the null value
NoFile == [name |-> NoName, bytes |-> "<null>"]

\* the File objects a user can select: a name and the bytes behind it
Files ==
  { [name |-> NameAP, bytes |-> "doc1"],
    [name |-> NameAP, bytes |-> "corrupt"],
    [name |-> NameRVP, bytes |-> "doc2"],
    [name |-> NameR, bytes |-> "blank"],
    [name |-> NameR, bytes |-> "absent"] }

Bytes == {f.bytes : f \in Files}

\* JavaScript undefined (Python None crossing the bridge)
Undefined == "<undefined>"
\* the filesystem has no entry at a path
Absent == "<absent>"
\* no value yet
None == "<none>"

\* `'/tmp/' + filename`
TempPath(filename) == << "/", "t", "m", "p", "/" >> \o filename

Paths == {TempPath(f.name) : f \in Files}

RECURSIVE SplitFrom(_, _, _)
\* s.split('.'): the segments of s between dots; cur is the segment being read
SplitFrom(s, i, cur) ==
  IF i > Len(s) THEN << cur >>
  ELSE IF s[i] = "." THEN << cur >> \o SplitFrom(s, i + 1, << >>)
  ELSE SplitFrom(s, i + 1, Append(cur, s[i]))

Split(s) == SplitFrom(s, 1, << >>)

RECURSIVE Join(_)
\* parts.join('.')
Join(parts) ==
  IF Len(parts) = 0 THEN << >>
  ELSE IF Len(parts) = 1 THEN parts[1]
  ELSE parts[1] \o << "." >> \o Join(Tail(parts))

\* nameParts = name.split('.'); if (nameParts.length > 1) nameParts.pop();
\* nameParts.join('.') + '.md'
MdName(name) ==
  LET nameParts == Split(name)
      kept == IF Len(nameParts) > 1
              THEN SubSeq(nameParts, 1, Len(nameParts) - 1)
              ELSE nameParts
  IN Join(kept) \o << ".", "m", "d" >>

(***************************************************************************)
(* The sandbox: packages of a runtime and its filesystem.                  *)
(***************************************************************************)
Components == {"micropip", "mocks", "packages", "optdeps", "markitdown", "wrapper"}

EmptyFS == [p \in Paths |-> Absent]

\* a writeFile that creates the file but leaves an existing one as it is
WriteFileKeepsExisting(fsys, path, data) ==
  IF fsys[path] = Absent THEN [fsys EXCEPT ![path] = data] ELSE fsys

\* py.FS.writeFile(path, data): creates the file or replaces its content
WriteFile(fsys, path, data) == [fsys EXCEPT ![path] = data]

\* py.FS.unlink(path)
Unlink(fsys, path) == [fsys EXCEPT ![path] = Absent]

\* convert_file(input_path): MarkItDown().convert(input_path).text_content.
\* The library is a black box that reads the file at the path; its answer is
\* fixed by the bytes it finds there: text, an empty string, None, or an
\* exception (also when there is no file at the path).
ConvertFile(fsys, path) ==
  LET data == fsys[path]
  IN CASE data = "doc1" -> [threw |-> FALSE, value |-> "md1"]
       [] data = "doc2" -> [threw |-> FALSE, value |-> "md2"]
       [] data = "blank" -> [threw |-> FALSE, value |-> ""]
       [] data = "absent" -> [threw |-> FALSE, value |-> Undefined]
       [] OTHER -> [threw |-> TRUE, value |-> Undefined]

\* a test that only rejects undefined, as `markdown !== undefined` would
TruthyUnlessUndefined(v) == v # Undefined

\* the test `if (markdown)`: a string is truthy unless empty
Truthy(v) == v # "" /\ v # Undefined

\* a provisioner without its early return
CachedNever(p) == FALSE

\* `if (pyodide) return pyodide`
Cached(p) == p # NoEnv

(***************************************************************************)
(* Messages shown by alert(`Conversion Failed: ...`).                      *)
(***************************************************************************)
InitMsg == "Failed to initialize Python environment"
EmptyMsg == "Conversion returned empty result"
ConvertMsg == "PythonError"
NotAFunctionMsg == "TypeError: convertFunc is not a function"
NullFileMsg == "TypeError: file.value is null"
ReadMsg == "NotReadableError"

(***************************************************************************)
(* State of the browser shape.                                             *)
(***************************************************************************)
VARIABLES
  file,               \* ref<File | null>
  isProcessing,       \* ref(false)
  isDownloadingModel, \* ref(false)
  resultText,         \* ref('')
  resultFilename,     \* ref('')
  pyodide,            \* the module-level cached handle
  installed,          \* runtime -> what has been loaded or registered in it
  fs,                 \* runtime -> its filesystem under /tmp
  nRuntimes,          \* runtimes constructed by loadPyodide() so far
  calls,              \* startConversion invocation -> its position and locals
  nCalls,             \* startConversion invocations so far
  work,               \* provisioning step -> times it was started
  overlapped,         \* some invocation started while another was in flight
  firstHandle,        \* what loadPyodideEnvironment returned to invocation 1
  last                \* the startConversion invocation that returned last

(***************************************************************************)
(* State of the server shape. The page of part_001 declares file,          *)
(* isProcessing, resultText and resultFilename as App.vue does; the two     *)
(* shapes are two specifications over the same four variables.             *)
(***************************************************************************)
VARIABLES
  pageLast,           \* how the page's startConversion returned last
  fetching,           \* the request the page's $fetch is waiting for, or 0
  requests,           \* request -> the handler's position, locals and response
  nReqs,              \* requests received so far
  tmpdir              \* upload temp files present on the server's disk

(***************************************************************************)
(* The size shown under the file name, `{{ formatSize(file.size) }}`.      *)
(***************************************************************************)
VARIABLES
  sizeBytes,          \* the argument `bytes` of formatSize
  sizeText            \* the string it returned, empty before the call

pageVars == << file, isProcessing, resultText, resultFilename >>

browserVars == << isDownloadingModel, pyodide, installed, fs, nRuntimes, calls,
                  nCalls, work, overlapped, firstHandle, last >>

serverVars == << pageLast, fetching, requests, nReqs, tmpdir >>

formatVars == << sizeBytes, sizeText >>

vars == << pageVars, browserVars, serverVars, formatVars >>

Steps == {"loadPyodide", "loadMicropip", "mocks", "loadPackages", "installOpt",
          "installMarkitdown", "wrapper"}

ProvisioningPcs == {"loadPyodide", "loadMicropip", "loadPackages", "installOpt",
                    "installMarkitdown"}

\* a startConversion invocation that has not begun: the await it is suspended
\* at and its locals
IdleCall ==
  [ pc |-> "idle",
    target |-> NoEnv,      \* runtime the pending package operation runs in
    micropip |-> NoEnv,    \* runtime of the local `micropip`
    py |-> NoEnv,          \* what loadPyodideEnvironment returned
    fromCache |-> FALSE,   \* it returned at `if (pyodide) return pyodide`
    buf |-> None,          \* the bytes the pending arrayBuffer() delivers
    disturbed |-> FALSE ]  \* file.value was reassigned since it began

DoneCall == [IdleCall EXCEPT !.pc = "done"]

\* what is recorded of an invocation when it returns
NoLast ==
  [ id |-> 0,
    outcome |-> "none",    \* "success" or "error"
    alert |-> None,        \* the message alerted
    py |-> NoEnv,          \* what loadPyodideEnvironment returned to it
    fromCache |-> FALSE,
    disturbed |-> FALSE,
    initFailed |-> FALSE,  \* loadPyodideEnvironment threw
    cacheAtThrow |-> NoEnv,\* the cached handle at that moment
    fileAtEnd |-> NoFile,  \* file.value when it returned
    buf |-> None,          \* arrayBuffer
    filename |-> NoName,   \* filename
    staged |-> FALSE,      \* writeFile(tempPath, ...) has run
    found |-> Absent,      \* what was at tempPath before writeFile
    prevPath |-> NoName,   \* tempPath of the staging invocation before it
    usable |-> FALSE,      \* convert_file was registered in py by then
    called |-> FALSE,      \* convertFunc(tempPath) has run
    markdown |-> None,     \* what it returned
    unlinkTried |-> FALSE, \* FS.unlink(tempPath) has run
    unlinkThrew |-> FALSE, \* and threw, which the empty catch swallowed
    wrote |-> FALSE,       \* the converter's text was assigned to resultText
    resultAtEnd |-> None ] \* resultText when it returned

Reqs == 1..MaxReqs

\* a request that has not arrived
NoRequest ==
  [ pc |-> "idle",              \* "converting", "responded"
    hasFile |-> FALSE,          \* the form holds a `file` part
    originalFilename |-> NoName,
    bytes |-> None,             \* content of the uploaded file
    filePath |-> 0,             \* uploadedFile.filepath, 0 when there is none
    fileExtension |-> NoName,   \* the hint given to convert
    status |-> 0,               \* status code of the response
    statusMessage |-> None,
    textContent |-> None,       \* body.textContent of a 200 response
    filename |-> None,          \* body.filename of a 200 response
    constructed |-> FALSE ]     \* new MarkItDown() has run for it

\* what is recorded of the page's startConversion when it returns
NoPageLast ==
  [ toast |-> None,        \* "success" or "error"
    resultAtEnd |-> None,  \* resultText when it returned
    req |-> 0,             \* the request its $fetch made
    nameAtEnd |-> NoName ] \* resultFilename when it returned

InFlight(c) == calls[c].pc \notin {"idle", "done"}

Provisioning(c) == calls[c].pc \in ProvisioningPcs

\* the loading overlay of the template covers the drop zone's buttons
OverlayShown == isProcessing \/ isDownloadingModel

\* the component as it is set up, before any event
Constructed ==
  /\ file = NoFile
  /\ isProcessing = FALSE
  /\ isDownloadingModel = FALSE
  /\ resultText = ""
  /\ resultFilename = NoName
  /\ pyodide = NoEnv
  /\ installed = [r \in Runtimes |-> {}]
  /\ fs = [r \in Runtimes |-> EmptyFS]
  /\ nRuntimes = 0
  /\ calls = [c \in Calls |-> IdleCall]
  /\ nCalls = 0
  /\ work = [s \in Steps |-> 0]
  /\ overlapped = FALSE
  /\ firstHandle = NoEnv
  /\ last = NoLast
  /\ pageLast = NoPageLast
  /\ fetching = 0
  /\ requests = [q \in Reqs |-> NoRequest]
  /\ nReqs = 0
  /\ tmpdir = {}

Init ==
  /\ Constructed
  /\ sizeBytes = << >>
  /\ sizeText = << >>

(***************************************************************************)
(* startConversion and loadPyodideEnvironment, cut at their awaits.        *)
(***************************************************************************)
\* the tempPath of the latest invocation that staged a file
LastPath == IF last.staged THEN TempPath(last.filename) ELSE last.prevPath

\* the record of invocation c as it returns; rec is its locals
Returned(c, rec) ==
  [NoLast EXCEPT !.id = c, !.py = rec.py, !.fromCache = rec.fromCache,
                 !.disturbed = rec.disturbed, !.fileAtEnd = file,
                 !.prevPath = LastPath]

\* a catch block that logs the error without alerting
FailedSilently(ret, msg) ==
  [ret EXCEPT !.outcome = "error", !.resultAtEnd = resultText]

\* startConversion: catch (error) { alert(`Conversion Failed: ...`) }
\* finally { isProcessing.value = false }
Failed(ret, msg) ==
  [ret EXCEPT !.outcome = "error", !.alert = msg, !.resultAtEnd = resultText]

\* loadPyodideEnvironment: catch (e) { throw new Error(`Failed to initialize
\* Python environment: ...`) }, caught in turn by startConversion
InitFailed(ret) ==
  Failed([ret EXCEPT !.initFailed = TRUE, !.cacheAtThrow = pyodide], InitMsg)

Install(inst, r, what) == [inst EXCEPT ![r] = @ \cup {what}]

Count(w, step) == [w EXCEPT ![step] = @ + 1]

\* setFile(f) and the assignment of the Remove button reassign file.value
\* under every invocation in flight
Disturb(cs) ==
  [c \in Calls |-> IF cs[c].pc \in {"idle", "done"} THEN cs[c]
                   ELSE [cs[c] EXCEPT !.disturbed = TRUE]]

\* a guard that also turns away files whose name has no extension
NothingSelectedOrNoExtension(f) ==
  f = NoFile \/ \A i \in 1..Len(f.name) : f.name[i] # "."

\* `if (!file.value) return`, the only guard of startConversion
NothingSelected(f) == f = NoFile

\* setFile(f), which ends in startConversion(): the synchronous part of
\* startConversion and of loadPyodideEnvironment up to its first await. When
\* the handle is cached the async function returns at once and startConversion
\* resumes in the same turn of the event loop, up to `file.value.arrayBuffer()`,
\* whose bytes are those of the File it is called on.
SetFile(f) ==
  IF NothingSelected(f)
  THEN /\ file' = f
       /\ resultText' = ""
       /\ resultFilename' = NoName
       /\ calls' = Disturb(calls)
       /\ UNCHANGED << isProcessing, isDownloadingModel, pyodide, installed, fs,
                       nRuntimes, nCalls, work, overlapped, firstHandle, last >>
       /\ UNCHANGED << serverVars, formatVars >>
  ELSE
  /\ nCalls < MaxCalls
  /\ LET c == nCalls + 1
     IN /\ file' = f
        /\ resultText' = ""
        /\ resultFilename' = NoName
        /\ nCalls' = c
        /\ overlapped' = (overlapped \/ \E d \in Calls : InFlight(d))
        /\ isProcessing' = TRUE
        /\ IF Cached(pyodide)
           THEN /\ calls' = [Disturb(calls) EXCEPT ![c] =
                     [IdleCall EXCEPT !.pc = "arrayBuffer", !.py = pyodide,
                                      !.fromCache = TRUE, !.buf = f.bytes]]
                /\ firstHandle' = IF c = 1 THEN pyodide ELSE firstHandle
                /\ UNCHANGED << isDownloadingModel, work >>
           ELSE /\ isDownloadingModel' = TRUE
                /\ work' = Count(work, "loadPyodide")
                /\ calls' = [Disturb(calls) EXCEPT ![c] =
                     [IdleCall EXCEPT !.pc = "loadPyodide"]]
                /\ UNCHANGED firstHandle
        /\ UNCHANGED << pyodide, installed, fs, nRuntimes, last >>
        /\ UNCHANGED << serverVars, formatVars >>

\* @drop on the drop zone; the overlay is a child of the zone, so a drop on
\* the overlay reaches this handler too
HandleDrop(f) ==
  /\ f \in Files
  /\ SetFile(f)

\* @change of the hidden file input, opened by a click on the empty zone or
\* on the Change button, both of which lie under the overlay while it shows
HandleFileChange(f) ==
  /\ ~OverlayShown
  /\ SetFile(f)

\* the Remove button: file = null; resultText = ''
RemoveFile ==
  /\ file # NoFile
  /\ ~OverlayShown
  /\ file' = NoFile
  /\ resultText' = ""
  /\ calls' = Disturb(calls)
  /\ UNCHANGED << isProcessing, isDownloadingModel, resultFilename, pyodide,
                  installed, fs, nRuntimes, nCalls, work, overlapped,
                  firstHandle, last >>
  /\ UNCHANGED << serverVars, formatVars >>

\* an install of the optional packages whose rejection is not caught
OptionalInstallRethrown(ok) == ~ok

\* try { await micropip.install([...]) } catch(e) { console.warn(...) }: what
\* leaves the statement when the install settles with ok
OptionalInstallThrows(ok) == FALSE

\* a provisioning step threw: isDownloadingModel and isProcessing are reset
ProvisionThrows(c, inst) ==
  /\ last' = InitFailed(Returned(c, calls[c]))
  /\ calls' = [calls EXCEPT ![c] = DoneCall]
  /\ installed' = inst
  /\ isDownloadingModel' = FALSE
  /\ isProcessing' = FALSE
  /\ UNCHANGED << file, resultText, resultFilename, pyodide, fs, nRuntimes,
                  nCalls, work, overlapped, firstHandle >>

\* `pyodide = await loadPyodide()` settles; then loadPackage("micropip") starts
LoadPyodideDone(c, ok) ==
  /\ calls[c].pc = "loadPyodide"
  /\ UNCHANGED << serverVars, formatVars >>
  /\ IF ok
     THEN LET r == nRuntimes + 1
          IN /\ nRuntimes' = r
             /\ pyodide' = r
             /\ work' = Count(work, "loadMicropip")
             /\ calls' = [calls EXCEPT ![c] =
                            [@ EXCEPT !.pc = "loadMicropip", !.target = r]]
             /\ UNCHANGED << file, isProcessing, isDownloadingModel, resultText,
                             resultFilename, installed, fs, nCalls, overlapped,
                             firstHandle, last >>
     ELSE ProvisionThrows(c, installed)

\* `await pyodide.loadPackage("micropip")` settles; then pyimport, the mock
\* modules, and loadPackage([...]) starts. Every `pyodide` is the module-level
\* variable as it is when the line runs.
LoadMicropipDone(c, ok) ==
  /\ calls[c].pc = "loadMicropip"
  /\ UNCHANGED << serverVars, formatVars >>
  /\ IF ~ok
     THEN ProvisionThrows(c, installed)
     ELSE LET inst1 == Install(installed, calls[c].target, "micropip")
              p == pyodide
          IN IF "micropip" \notin inst1[p]
             THEN ProvisionThrows(c, inst1)
             ELSE /\ installed' = Install(inst1, p, "mocks")
                  /\ work' = Count(Count(work, "mocks"), "loadPackages")
                  /\ calls' = [calls EXCEPT ![c] =
                       [@ EXCEPT !.pc = "loadPackages", !.micropip = p, !.target = p]]
                  /\ UNCHANGED << file, isProcessing, isDownloadingModel, resultText,
                                  resultFilename, pyodide, fs, nRuntimes, nCalls,
                                  overlapped, firstHandle, last >>

\* `await pyodide.loadPackage(['pandas', ...])` settles; then
\* micropip.install([...]) starts
LoadPackagesDone(c, ok) ==
  /\ calls[c].pc = "loadPackages"
  /\ UNCHANGED << serverVars, formatVars >>
  /\ IF ~ok
     THEN ProvisionThrows(c, installed)
     ELSE /\ installed' = Install(installed, calls[c].target, "packages")
          /\ work' = Count(work, "installOpt")
          /\ calls' = [calls EXCEPT ![c] =
               [@ EXCEPT !.pc = "installOpt", !.target = calls[c].micropip]]
          /\ UNCHANGED << file, isProcessing, isDownloadingModel, resultText,
                          resultFilename, pyodide, fs, nRuntimes, nCalls, overlapped,
                          firstHandle, last >>

\* `await micropip.install([...])` settles, a rejection being caught and
\* logged; then runPythonAsync(micropip.install('markitdown', deps=False))
\* starts
InstallOptDone(c, ok) ==
  /\ calls[c].pc = "installOpt"
  /\ UNCHANGED << serverVars, formatVars >>
  /\ IF OptionalInstallThrows(ok)
     THEN ProvisionThrows(c, installed)
     ELSE /\ installed' = IF ok THEN Install(installed, calls[c].target, "optdeps")
                          ELSE installed
          /\ work' = Count(work, "installMarkitdown")
          /\ calls' = [calls EXCEPT ![c] =
               [@ EXCEPT !.pc = "installMarkitdown", !.target = pyodide]]
          /\ UNCHANGED << file, isProcessing, isDownloadingModel, resultText,
                          resultFilename, pyodide, fs, nRuntimes, nCalls,
                          overlapped, firstHandle, last >>

\* `await pyodide.runPythonAsync(...)` settles; then the wrapper is registered
\* (wrapOk: `from markitdown import MarkItDown` imports), the handle is
\* returned, isDownloadingModel is reset and startConversion resumes up to
\* `file.value.arrayBuffer()`
InstallMarkitdownDone(c, ok, wrapOk) ==
  /\ calls[c].pc = "installMarkitdown"
  /\ UNCHANGED << serverVars, formatVars >>
  /\ IF ~ok \/ "micropip" \notin installed[calls[c].target]
     THEN ProvisionThrows(c, installed)
     ELSE LET inst1 == Install(installed, calls[c].target, "markitdown")
              p == pyodide
              rec == [calls[c] EXCEPT !.py = p]
          IN IF ~wrapOk \/ "markitdown" \notin inst1[p]
             THEN /\ work' = Count(work, "wrapper")
                  /\ last' = InitFailed(Returned(c, calls[c]))
                  /\ calls' = [calls EXCEPT ![c] = DoneCall]
                  /\ installed' = inst1
                  /\ isDownloadingModel' = FALSE
                  /\ isProcessing' = FALSE
                  /\ UNCHANGED << file, resultText, resultFilename, pyodide, fs,
                                  nRuntimes, nCalls, overlapped, firstHandle >>
             ELSE /\ installed' = Install(inst1, p, "wrapper")
                  /\ work' = Count(work, "wrapper")
                  /\ isDownloadingModel' = FALSE
                  /\ firstHandle' = IF c = 1 THEN p ELSE firstHandle
                  /\ IF file = NoFile
                     THEN /\ last' = Failed(Returned(c, rec), NullFileMsg)
                          /\ calls' = [calls EXCEPT ![c] = DoneCall]
                          /\ isProcessing' = FALSE
                     ELSE /\ calls' = [calls EXCEPT ![c] =
                               [rec EXCEPT !.pc = "arrayBuffer", !.buf = file.bytes]]
                          /\ UNCHANGED << last, isProcessing >>
                  /\ UNCHANGED << file, resultText, resultFilename, pyodide, fs,
                                  nRuntimes, nCalls, overlapped >>

\* startConversion ends in its catch with message msg, the runtime's
\* filesystem being fsys by then
ConversionFails(c, ret, msg, fsys) ==
  /\ last' = Failed(ret, msg)
  /\ calls' = [calls EXCEPT ![c] = DoneCall]
  /\ fs' = fsys
  /\ isProcessing' = FALSE
  /\ UNCHANGED << file, isDownloadingModel, resultText, resultFilename, pyodide,
                  installed, nRuntimes, nCalls, work, overlapped, firstHandle >>

\* `await file.value.arrayBuffer()` settles; the rest of startConversion runs
\* without another await: stage, convert, unlink, publish the result. FS.unlink
\* removes the file or throws (unlinkOk) and then removes nothing.
ArrayBufferDone(c, ok, unlinkOk) ==
  /\ calls[c].pc = "arrayBuffer"
  /\ UNCHANGED << serverVars, formatVars >>
  /\ LET ret == Returned(c, calls[c])
     IN IF ~ok
        THEN ConversionFails(c, ret, ReadMsg, fs)
        ELSE IF file = NoFile
        THEN ConversionFails(c, [ret EXCEPT !.buf = calls[c].buf], NullFileMsg, fs)
        ELSE LET py == calls[c].py
                 filename == file.name
                 tempPath == TempPath(filename)
                 fs1 == [fs EXCEPT ![py] = WriteFile(@, tempPath, calls[c].buf)]
                 ret1 == [ret EXCEPT !.buf = calls[c].buf, !.filename = filename,
                                     !.staged = TRUE, !.found = fs[py][tempPath],
                                     !.usable = "wrapper" \in installed[py]]
             IN IF "wrapper" \notin installed[py]
                THEN ConversionFails(c, ret1, NotAFunctionMsg, fs1)
                ELSE LET r == ConvertFile(fs1[py], tempPath)
                         ret2 == [ret1 EXCEPT !.called = TRUE]
                     IN IF r.threw
                        THEN ConversionFails(c, ret2, ConvertMsg, fs1)
                        ELSE LET fs2 == [fs1 EXCEPT ![py] =
                                            IF unlinkOk THEN Unlink(@, tempPath)
                                            ELSE @]
                                 ret3 == [ret2 EXCEPT !.markdown = r.value,
                                                      !.unlinkTried = TRUE,
                                                      !.unlinkThrew = ~unlinkOk]
                             IN IF Truthy(r.value)
                                THEN /\ resultText' = r.value
                                     /\ resultFilename' = MdName(file.name)
                                     /\ fs' = fs2
                                     /\ isProcessing' = FALSE
                                     /\ calls' = [calls EXCEPT ![c] = DoneCall]
                                     /\ last' = [ret3 EXCEPT !.outcome = "success",
                                                             !.wrote = TRUE,
                                                             !.resultAtEnd = r.value]
                                     /\ UNCHANGED << file, isDownloadingModel, pyodide,
                                                     installed, nRuntimes, nCalls, work,
                                                     overlapped, firstHandle >>
                                ELSE ConversionFails(c, ret3, EmptyMsg, fs2)

Next ==
  \/ \E f \in Files : HandleFileChange(f)
  \/ \E f \in Files : HandleDrop(f)
  \/ RemoveFile
  \/ \E c \in Calls, ok \in BOOLEAN : LoadPyodideDone(c, ok)
  \/ \E c \in Calls, ok \in BOOLEAN : LoadMicropipDone(c, ok)
  \/ \E c \in Calls, ok \in BOOLEAN : LoadPackagesDone(c, ok)
  \/ \E c \in Calls, ok \in BOOLEAN : InstallOptDone(c, ok)
  \/ \E c \in Calls, ok \in BOOLEAN, wrapOk \in BOOLEAN :
        InstallMarkitdownDone(c, ok, wrapOk)
  \/ \E c \in Calls, ok \in BOOLEAN, unlinkOk \in BOOLEAN :
        ArrayBufferDone(c, ok, unlinkOk)

Spec == Init /\ [][Next]_vars

\* the awaited call invocation c is suspended at resolves or rejects
Settle(c) ==
  \/ \E ok \in BOOLEAN : LoadPyodideDone(c, ok)
  \/ \E ok \in BOOLEAN : LoadMicropipDone(c, ok)
  \/ \E ok \in BOOLEAN : LoadPackagesDone(c, ok)
  \/ \E ok \in BOOLEAN : InstallOptDone(c, ok)
  \/ \E ok \in BOOLEAN, wrapOk \in BOOLEAN : InstallMarkitdownDone(c, ok, wrapOk)
  \/ \E ok \in BOOLEAN, unlinkOk \in BOOLEAN : ArrayBufferDone(c, ok, unlinkOk)

\* every awaited external call eventually resolves or rejects; the user is
\* under no obligation
FairSpec == Spec /\ \A c \in Calls : WF_vars(Settle(c))

(***************************************************************************)
(* Server shape: the page of part_001 and the request handler of part_002. *)
(***************************************************************************)
\* what another HTTP client can upload: any File, or a part without a name
Uploads == Files \cup {[name |-> NoName, bytes |-> "doc1"]}

\* the hint is undefined
NoHint == << >>

\* originalFilename.split('.').pop()
LastSegment(name) == Split(name)[Len(Split(name))]

\* originalFilename ? ('.' + originalFilename.split('.').pop()) : undefined
FileExtension(originalFilename) ==
  IF originalFilename = NoName THEN NoHint
  ELSE << "." >> \o LastSegment(originalFilename)

\* await markitdown.convert(filePath, { fileExtension }): the library is a
\* black box whose answer is fixed by the uploaded bytes: a result with text,
\* a result with empty text, no result, or an exception
LibConvert(data) ==
  CASE data = "doc1" -> [threw |-> FALSE, result |-> TRUE, textContent |-> "md1"]
    [] data = "doc2" -> [threw |-> FALSE, result |-> TRUE, textContent |-> "md2"]
    [] data = "blank" -> [threw |-> FALSE, result |-> TRUE, textContent |-> ""]
    [] data = "absent" -> [threw |-> FALSE, result |-> FALSE, textContent |-> Undefined]
    [] OTHER -> [threw |-> TRUE, result |-> FALSE, textContent |-> Undefined]

\* a handler that takes whatever convert returns for a result
ResultNeverMissing(r) == FALSE

\* the test `if (!result)` of the handler
ResultMissing(r) == ~r.result

\* the finally block of the handler: `if (fs.existsSync(filePath)) { }` holds
\* only comments, the unlink being commented out
HandlerCleanup(dir, filePath) == dir

\* a handler without its upload check
NoUploadNever(req) == FALSE

\* `if (!files || files.length === 0)`
NoUpload(req) == ~req.hasFile

NoUploadMsg == "No file uploaded"
LibraryMsg == "Conversion failed: library error"
EmptyResultMsg == "Conversion failed: Conversion returned empty result"

\* setFile(f) of the page, from handleDrop or handleFileChange: no conversion
\* starts here
PageSetFile(f) ==
  /\ file' = f
  /\ resultText' = ""
  /\ resultFilename' = NoName
  /\ UNCHANGED << isProcessing, browserVars, serverVars, formatVars >>

\* the remove button of the page, under the overlay while it shows: file = null
PageRemoveFile ==
  /\ file # NoFile
  /\ ~isProcessing
  /\ file' = NoFile
  /\ UNCHANGED << isProcessing, resultText, resultFilename, browserVars,
                  serverVars, formatVars >>

\* a request reaches the server
Send(q, hasFile, upload) ==
  requests' = [requests EXCEPT ![q] =
    [NoRequest EXCEPT !.pc = "sent", !.hasFile = hasFile,
                      !.originalFilename = IF hasFile THEN upload.name ELSE NoName,
                      !.bytes = IF hasFile THEN upload.bytes ELSE None]]

\* startConversion of the page, from the button (disabled when !file ||
\* isProcessing), up to `await $fetch('/api/markitdown', ...)`
PageStartConversion ==
  /\ file # NoFile
  /\ ~isProcessing
  /\ nReqs < MaxReqs
  /\ isProcessing' = TRUE
  /\ resultText' = ""
  /\ nReqs' = nReqs + 1
  /\ fetching' = nReqs + 1
  /\ Send(nReqs + 1, TRUE, file)
  /\ UNCHANGED << file, resultFilename, browserVars, formatVars, pageLast, tmpdir >>

\* a request of some other HTTP client, with or without a `file` part
OtherRequest(hasFile, upload) ==
  /\ nReqs < MaxReqs
  /\ nReqs' = nReqs + 1
  /\ Send(nReqs + 1, hasFile, upload)
  /\ UNCHANGED << pageVars, browserVars, formatVars, pageLast, fetching, tmpdir >>

\* the handler from `await readFiles(event, ...)`, which stores the file part
\* in a temp file of its own, to `await markitdown.convert(...)`
HandlerReceive(q) ==
  /\ requests[q].pc = "sent"
  /\ IF NoUpload(requests[q])
     THEN /\ requests' = [requests EXCEPT ![q] =
               [@ EXCEPT !.pc = "responded", !.status = 400,
                         !.statusMessage = NoUploadMsg]]
          /\ UNCHANGED tmpdir
     ELSE /\ tmpdir' = tmpdir \cup {q}
          /\ requests' = [requests EXCEPT ![q] =
               [@ EXCEPT !.pc = "converting", !.filePath = q,
                         !.constructed = TRUE,
                         !.fileExtension = FileExtension(requests[q].originalFilename)]]
  /\ UNCHANGED << pageVars, browserVars, formatVars, pageLast, fetching, nReqs >>

\* `await markitdown.convert(...)` settles; the handler answers and runs its
\* finally block
HandlerConvertDone(q) ==
  /\ requests[q].pc = "converting"
  /\ LET r == LibConvert(requests[q].bytes)
     IN requests' = [requests EXCEPT ![q] =
          IF r.threw
          THEN [@ EXCEPT !.pc = "responded", !.status = 500,
                         !.statusMessage = LibraryMsg]
          ELSE IF ResultMissing(r)
          THEN [@ EXCEPT !.pc = "responded", !.status = 500,
                         !.statusMessage = EmptyResultMsg]
          ELSE [@ EXCEPT !.pc = "responded", !.status = 200,
                         !.textContent = r.textContent,
                         !.filename = requests[q].originalFilename]]
  /\ tmpdir' = HandlerCleanup(tmpdir, requests[q].filePath)
  /\ UNCHANGED << pageVars, browserVars, formatVars, pageLast, fetching, nReqs >>

\* `await $fetch(...)` of the page settles: a 200 answer is shown, any other
\* status makes $fetch throw; finally isProcessing is reset
PageFetchDone ==
  /\ fetching # 0
  /\ requests[fetching].pc = "responded"
  /\ fetching' = 0
  /\ isProcessing' = FALSE
  /\ LET q == requests[fetching]
     IN IF q.status = 200
        THEN /\ resultText' = q.textContent
             /\ IF file = NoFile
                THEN /\ pageLast' = [toast |-> "error", resultAtEnd |-> q.textContent,
                                     req |-> fetching, nameAtEnd |-> resultFilename]
                     /\ UNCHANGED resultFilename
                ELSE /\ resultFilename' = MdName(file.name)
                     /\ pageLast' = [toast |-> "success",
                                     resultAtEnd |-> q.textContent,
                                     req |-> fetching,
                                     nameAtEnd |-> MdName(file.name)]
        ELSE /\ pageLast' = [toast |-> "error", resultAtEnd |-> resultText,
                             req |-> fetching, nameAtEnd |-> resultFilename]
             /\ UNCHANGED << resultText, resultFilename >>
  /\ UNCHANGED << file, browserVars, formatVars, requests, nReqs, tmpdir >>

ServerNext ==
  \/ \E f \in Files : PageSetFile(f)
  \/ PageRemoveFile
  \/ PageStartConversion
  \/ \E hasFile \in BOOLEAN, u \in Uploads : OtherRequest(hasFile, u)
  \/ \E q \in Reqs : HandlerReceive(q)
  \/ \E q \in Reqs : HandlerConvertDone(q)
  \/ PageFetchDone

ServerSpec == Init /\ [][ServerNext]_vars

(***************************************************************************)
(* formatSize (App.vue and part_001 hold the same function). A byte count  *)
(* is written in base 1024, lowest digit first and without leading zeros,  *)
(* << >> being 0: the counts of interest exceed the integers of the model  *)
(* checker, and every step of the function works digit by digit.           *)
(***************************************************************************)
\* const k = 1024
K == 1024

\* const sizes = ['B', 'KB', 'MB', 'GB']
sizes == << << "B" >>, << "K", "B" >>, << "M", "B" >>, << "G", "B" >> >>

\* what ' ' + sizes[i] appends when sizes[i] is undefined
UndefinedText == << "u", "n", "d", "e", "f", "i", "n", "e", "d" >>

DigitValues == {0, 1, 5, 128, 512, 1023}

\* the byte counts explored: up to MaxDigits digits; beyond the unit table
\* the leading digit stays small, away from the powers of 1024 near which
\* the quotient of logarithms is no longer exact in double precision
ByteCounts ==
  {<< >>} \cup
  UNION { {b \in [1..n -> DigitValues] :
             b[n] # 0 /\ (n > Len(sizes) => b[n] <= 5)} : n \in 1..MaxDigits }

\* Math.floor(Math.log(bytes) / Math.log(k)) for bytes > 0: the position of
\* the leading digit (the double quotient has the exact floor on ByteCounts)
FloorLog(bytes) == Len(bytes) - 1

RECURSIVE Above(_, _)
\* the integer part of bytes / Math.pow(k, i)
Above(bytes, i) ==
  IF i >= Len(bytes) THEN 0 ELSE bytes[i + 1] + K * Above(bytes, i + 1)

RECURSIVE CarryAfter(_, _)
\* 100 times the fraction below digit i, digit by digit from the lowest: the
\* carry out of digit j
CarryAfter(bytes, j) ==
  IF j = 0 THEN 0 ELSE (100 * bytes[j] + CarryAfter(bytes, j - 1)) \div K

\* and what is left in digit j
DigitAfter(bytes, j) == (100 * bytes[j] + CarryAfter(bytes, j - 1)) % K

\* the n of toFixed(2): the integer for which n / 100 is nearest to
\* bytes / Math.pow(k, i), the larger of two (the division by a power of two
\* is exact)
Hundredths(bytes, i) ==
  100 * Above(bytes, i) + CarryAfter(bytes, i)
    + (IF i > 0 /\ DigitAfter(bytes, i) >= K \div 2 THEN 1 ELSE 0)

DecChars == << "0", "1", "2", "3", "4", "5", "6", "7", "8", "9" >>

RECURSIVE Decimal(_)
\* the decimal digits of a non-negative integer
Decimal(n) ==
  IF n < 10 THEN << DecChars[n + 1] >>
  ELSE Append(Decimal(n \div 10), DecChars[(n % 10) + 1])

\* (x).toFixed(2) of the x with n hundredths: always two decimals
ToFixed2(n) ==
  Decimal(n \div 100) \o << ".", DecChars[((n \div 10) % 10) + 1],
                             DecChars[(n % 10) + 1] >>

CharDigit(ch) == CHOOSE d \in 0..9 : DecChars[d + 1] = ch

RECURSIVE ParseInt(_)
ParseInt(str) ==
  IF str = << >> THEN 0
  ELSE 10 * ParseInt(SubSeq(str, 1, Len(str) - 1)) + CharDigit(str[Len(str)])

\* parseFloat of a string with two decimals: the number, in hundredths
ParseFloat(str) ==
  LET dot == CHOOSE j \in 1..Len(str) : str[j] = "."
  IN 100 * ParseInt(SubSeq(str, 1, dot - 1))
       + ParseInt(SubSeq(str, dot + 1, Len(str)))

\* the number with n hundredths as `+ ' '` turns it into a string: no
\* trailing zeros, no point for an integer
NumberToString(n) ==
  Decimal(n \div 100) \o
    (IF n % 100 = 0 THEN << >>
     ELSE IF n % 10 = 0 THEN << ".", DecChars[((n \div 10) % 10) + 1] >>
     ELSE << ".", DecChars[((n \div 10) % 10) + 1], DecChars[(n % 10) + 1] >>)

formatSize(bytes) ==
  IF bytes = << >> THEN << "0", " ", "B" >>
  ELSE LET i == FloorLog(bytes)
       IN NumberToString(ParseFloat(ToFixed2(Hundredths(bytes, i))))
            \o << " " >>
            \o (IF i + 1 <= Len(sizes) THEN sizes[i + 1] ELSE UndefinedText)

\* the function applied to one byte count
FormatInit ==
  /\ Constructed
  /\ sizeBytes \in ByteCounts
  /\ sizeText = << >>

FormatSize ==
  /\ sizeText = << >>
  /\ sizeText' = formatSize(sizeBytes)
  /\ UNCHANGED << pageVars, browserVars, serverVars, sizeBytes >>

FormatNext == FormatSize

FormatSpec == FormatInit /\ [][FormatNext]_vars

(***************************************************************************)
(* Properties.                                                             *)
(***************************************************************************)
\* the values the test `if (markdown)` takes for empty or absent
EmptyValues == {"", Undefined}

\* C1: browser shape: when a startConversion invocation has returned, the file
\* it staged at /tmp/<filename> is no longer in the runtime's filesystem;
\* stated for the invocations that went on to call the converter, whether it
\* returned text, returned nothing or threw, and whose removal, if it ran, did
\* not itself fail.
C1_StagedFileRemoved ==
  (last.staged /\ last.called /\ ~last.unlinkThrew)
  => fs[last.py][TempPath(last.filename)] = Absent

\* C2: when first-time provisioning fails at any step, the call throws the
\* initialization error and the cached handle is left empty, so that a later
\* call served from the cache never gets a half-initialized environment.
C2_FailedProvisioningClearsCache ==
  ~overlapped =>
    /\ last.initFailed => (last.alert = InitMsg /\ last.cacheAtThrow = NoEnv)
    /\ (last.fromCache /\ last.id # 0) => "wrapper" \in installed[last.py]

\* C3: in a run of calls made one after another whose first call succeeds,
\* every call gets the same handle and every provisioning step is done once.
C3_ProvisionedOnce ==
  (~overlapped /\ firstHandle # NoEnv) =>
    /\ \A c \in Calls : calls[c].py \in {NoEnv, firstHandle}
    /\ last.id # 0 => (last.py = firstHandle /\ ~last.initFailed)
    /\ \A s \in Steps : work[s] = 1
    /\ nRuntimes = 1
    /\ pyodide = firstHandle

C3_Witness ==
  /\ ~overlapped
  /\ firstHandle # NoEnv
  /\ nCalls >= 2
  /\ last.id >= 2
  /\ last.fromCache
  /\ last.py = firstHandle

\* C4: at most one provisioning run is in progress at any time and at most one
\* runtime is ever constructed, whatever the interleaving of file selections.
C4_OneEnvironment ==
  /\ Cardinality({c \in Calls : Provisioning(c)}) <= 1
  /\ nRuntimes <= 1

C6_ServerEmptyTextIsFailure ==
  /\ \A q \in Reqs :
       (/\ requests[q].pc = "responded"
        /\ requests[q].hasFile
        /\ ~LibConvert(requests[q].bytes).threw
        /\ LibConvert(requests[q].bytes).textContent \in EmptyValues)
       => requests[q].status = 500
  /\ pageLast.toast = "success" => pageLast.resultAtEnd \notin EmptyValues

\* C7: browser shape: at most one startConversion invocation is in flight at
\* any time.
C7_SingleConversionInFlight ==
  Cardinality({c \in Calls : InFlight(c)}) <= 1

\* C8: server shape: when the handler has answered a request that carried a
\* file part, the uploaded temp file at filePath is gone.
C8_UploadRemoved ==
  \A q \in Reqs :
    (requests[q].pc = "responded" /\ requests[q].hasFile)
    => requests[q].filePath \notin tmpdir

\* C9: browser shape: a conversion never stages at the path the staging
\* conversion before it used.
C9_DistinctStagingPaths ==
  (last.staged /\ last.prevPath # NoName)
  => TempPath(last.filename) # last.prevPath

\* the converter's answer to a file staged alone in an empty filesystem
Alone(name, data) ==
  ConvertFile(WriteFile(EmptyFS, TempPath(name), data), TempPath(name))

\* C10: the outcome of a conversion, its text or its error, is the one the
\* same bytes and name have in a fresh filesystem, whatever earlier
\* conversions left behind; and a conversion that no file selection disturbed
\* stages the name and the bytes of the selected file.
C10_OutcomeIndependentOfEarlierConversions ==
  /\ last.called =>
       LET a == Alone(last.filename, last.buf)
       IN /\ a.threw <=> last.alert = ConvertMsg
          /\ ~a.threw => last.markdown = a.value
          /\ (~a.threw /\ a.value \notin EmptyValues) <=> last.outcome = "success"
          /\ last.outcome = "success" => last.resultAtEnd = a.value
  /\ (last.staged /\ ~last.disturbed) =>
       (last.filename = last.fileAtEnd.name /\ last.buf = last.fileAtEnd.bytes)

C10_Witness ==
  /\ ~overlapped
  /\ last.called
  /\ last.found \notin {Absent, last.buf}
  /\ last.outcome = "success"

\* C11: on every successful conversion the suggested output filename is the
\* name of the converted file with its last dot-separated segment replaced by
\* md, or with .md appended when it has no dot; in the server shape the
\* converted file is the upload of the request the page made; stated for
\* the conversions that ended with text.
C11_OutputFilenameFromOriginal ==
  (pageLast.toast = "success" /\ pageLast.resultAtEnd \notin EmptyValues) =>
    pageLast.nameAtEnd = MdName(requests[pageLast.req].originalFilename)

\* C12: in every reachable state isDownloadingModel is true if and only if a
\* first-time provisioning run of loadPyodideEnvironment is in progress.
C12_DownloadingIffProvisioning ==
  isDownloadingModel <=> \E c \in Calls : Provisioning(c)

\* how a startConversion invocation may end: with its non-empty text in
\* resultText, or with an alert
EndedWell(l) ==
  \/ l.outcome = "success" /\ l.wrote /\ l.resultAtEnd \notin EmptyValues \cup {None}
  \/ l.outcome = "error" /\ l.alert # None

\* C13: if every awaited call settles, every startConversion invocation
\* started on a selected file eventually returns; it returns through its
\* try/catch/finally, having set resultText to non-empty text or alerted an
\* error, and sets isProcessing to false as it returns.
C13_EveryConversionEnds ==
  /\ \A c \in Calls : InFlight(c) ~> calls[c].pc = "done"
  /\ [][\A c \in Calls :
          (calls[c].pc # "done" /\ calls'[c].pc = "done") =>
            /\ InFlight(c)
            /\ last'.id = c
            /\ EndedWell(last')
            /\ isProcessing' = FALSE]_vars

C13_Witness ==
  /\ nCalls = MaxCalls
  /\ \A c \in Calls : calls[c].pc = "done"
  /\ last.outcome = "error"
  /\ last.alert = ReadMsg
  /\ ~isProcessing

\* C14: server shape: a request that carried a file part is answered either
\* 200 with the text and the filename, or 500 with a status message; when the
\* library raised or returned no result the answer is 500.
C14_FileRequestAnswered200Or500 ==
  \A q \in Reqs :
    (requests[q].pc = "responded" /\ requests[q].hasFile) =>
      LET r == LibConvert(requests[q].bytes)
          failure == r.threw \/ ~r.result
      IN /\ requests[q].status \in {200, 500}
         /\ failure => requests[q].status = 500
         /\ requests[q].status = 500 =>
              /\ requests[q].statusMessage \in {LibraryMsg, EmptyResultMsg}
              /\ requests[q].textContent = None
         /\ requests[q].status = 200 =>
              /\ requests[q].statusMessage = None
              /\ requests[q].textContent = r.textContent
              /\ requests[q].textContent # Undefined
              /\ requests[q].filename = requests[q].originalFilename

C14_Witness ==
  \E q, p \in Reqs :
    /\ requests[q].pc = "responded" /\ requests[q].status = 200
    /\ requests[p].pc = "responded" /\ requests[p].status = 500
    /\ requests[p].statusMessage = EmptyResultMsg

\* C15: server shape: a request with no file part is answered 400, and at no
\* time is a converter constructed or a conversion started for it.
C15_NoFilePartRejected ==
  \A q \in Reqs :
    (requests[q].pc # "idle" /\ ~requests[q].hasFile) =>
      /\ ~requests[q].constructed
      /\ requests[q].pc \in {"sent", "responded"}
      /\ q \notin tmpdir
      /\ requests[q].pc = "responded" =>
           (requests[q].status = 400 /\ requests[q].statusMessage = NoUploadMsg)

C15_Witness ==
  \E q \in Reqs :
    /\ ~requests[q].hasFile
    /\ requests[q].pc = "responded"
    /\ requests[q].status = 400

\* the filename has an extension: a dot somewhere in it
HasDot(name) == \E i \in 1..Len(name) : name[i] = "."

\* C16: server shape: the format hint passed to the converter is a dot plus
\* the last dot-separated segment of the original filename when the filename
\* has a dot, and undefined when it has none or there is no filename.
C16_HintOnlyWhenExtension ==
  \A q \in Reqs :
    requests[q].constructed =>
      LET name == requests[q].originalFilename
      IN IF HasDot(name)
         THEN requests[q].fileExtension = << "." >> \o LastSegment(name)
         ELSE requests[q].fileExtension = NoHint

\* the handle r can convert: the library is installed and convert_file is
\* registered in it
Usable(r) == {"micropip", "mocks", "markitdown", "wrapper"} \subseteq installed[r]

\* C17: when the install of the optional packages settles, resolved or
\* rejected, the provisioning run does not end there: it goes on to install
\* the conversion library, nothing is alerted and the provisioning flag is
\* left as it is; and a handle returned by a provisioning run is usable also
\* when the optional packages are missing from it.
C17_OptionalInstallFailureSwallowed ==
  /\ [][\A c \in Calls :
          (calls[c].pc = "installOpt" /\ calls'[c].pc # "installOpt") =>
            /\ calls'[c].pc = "installMarkitdown"
            /\ work'["installMarkitdown"] = work["installMarkitdown"] + 1
            /\ last' = last
            /\ isDownloadingModel' = isDownloadingModel
            /\ isProcessing' = isProcessing]_vars
  /\ [](\A c \in Calls :
          (~calls[c].fromCache /\ calls[c].py # NoEnv
             /\ "optdeps" \notin installed[calls[c].py])
          => Usable(calls[c].py))

C17_Witness ==
  /\ ~overlapped
  /\ last.id = 1
  /\ last.outcome = "success"
  /\ "optdeps" \notin installed[last.py]
  /\ Usable(last.py)

\* C18: once the converter has been invoked the removal of the staged file is
\* attempted, and a removal that throws does not change the outcome: text
\* returned by the converter is still the result, and an empty return is
\* still reported as the empty-result error.
C18_CleanupAttemptedAndSwallowed ==
  /\ last.called => last.unlinkTried
  /\ (last.unlinkThrew /\ last.markdown \notin EmptyValues) =>
       (last.outcome = "success" /\ last.resultAtEnd = last.markdown)
  /\ (last.unlinkThrew /\ last.markdown \in EmptyValues) =>
       (last.outcome = "error" /\ last.alert = EmptyMsg)

\* C19: every selected file is attempted, whatever its bytes and its name:
\* when no invocation is in flight the selected file is the one the last
\* invocation ended on; and an invocation that staged a file in an
\* environment with convert_file registered invoked the converter, and ended
\* as the converter did on those bytes: its text, its exception, or the
\* empty-result error for an empty return.
C19_NoRejectionOfItsOwn ==
  /\ (file # NoFile /\ \A c \in Calls : ~InFlight(c)) =>
       (last.id # 0 /\ last.fileAtEnd = file)
  /\ (last.py # NoEnv /\ last.buf # None /\ last.fileAtEnd # NoFile) =>
       (last.staged /\ last.filename = last.fileAtEnd.name)
  /\ (last.staged /\ last.usable) =>
       LET a == Alone(last.filename, last.buf)
       IN /\ last.called
          /\ a.threw => (last.outcome = "error" /\ last.alert = ConvertMsg)
          /\ (~a.threw /\ a.value \notin EmptyValues) =>
               (last.outcome = "success" /\ last.resultAtEnd = a.value)
          /\ (~a.threw /\ a.value \in EmptyValues) =>
               (last.outcome = "error" /\ last.alert = EmptyMsg)

C19_Witness ==
  /\ last.filename = NameR
  /\ last.buf = "blank"
  /\ last.usable
  /\ last.staged
  /\ last.called
  /\ last.unlinkTried
  /\ file = last.fileAtEnd
  /\ \A c \in Calls : ~InFlight(c)

\* n hundredths written with at most two decimals, trailing zeros dropped
Rounded(n) ==
  LET whole == Decimal(n \div 100)
      tenths == DecChars[((n % 100) \div 10) + 1]
      hundredths == DecChars[(n % 10) + 1]
  IN CASE n % 100 = 0 -> whole
       [] n % 100 # 0 /\ n % 10 = 0 -> whole \o << ".", tenths >>
       [] OTHER -> whole \o << ".", tenths, hundredths >>

\* C20: formatSize(0) is `0 B`; for a positive count it is the count divided
\* by 1024^i, rounded to at most two decimals with trailing zeros dropped, a
\* space, and the i-th of the units B, KB, MB, GB, i being the largest integer
\* with 1024^i <= bytes, which is the position of the leading base-1024 digit.
C20_FormatSizeValueAndUnit ==
  sizeText # << >> =>
    IF sizeBytes = << >> THEN sizeText = << "0", " ", "B" >>
    ELSE LET i == Len(sizeBytes) - 1
         IN /\ i + 1 \in 1..Len(sizes)
            /\ sizeText = Rounded(Hundredths(sizeBytes, i)) \o << " " >> \o sizes[i + 1]

\* C21: within one startConversion invocation the bytes written to the
\* staging path and the filename the path is built from (which is also the
\* name resultFilename is derived from, read in the same turn) are those of
\* one selected file.
C21_BytesAndNameOfOneFile ==
  last.staged => [name |-> last.filename, bytes |-> last.buf] \in Files

\* C22: browser shape: in every reachable state a non-empty resultText is the
\* converter's text for the file that is selected now.
C22_ResultOfSelectedFile ==
  resultText # "" =>
    /\ file # NoFile
    /\ ~Alone(file.name, file.bytes).threw
    /\ resultText = Alone(file.name, file.bytes).value

\* C23: browser shape: in every reachable state isProcessing is true exactly
\* when some startConversion invocation is in flight.
C23_ProcessingIffInFlight ==
  isProcessing <=> \E c \in Calls : InFlight(c)

\* the provisioning steps done in runtime r respect the order: package
\* manager, mocks, curated packages, (optional packages,) library, wrapper
InOrder(r) ==
  /\ "mocks" \in installed[r] => "micropip" \in installed[r]
  /\ "packages" \in installed[r] => "mocks" \in installed[r]
  /\ "optdeps" \in installed[r] => "packages" \in installed[r]
  /\ "markitdown" \in installed[r] => "packages" \in installed[r]
  /\ "wrapper" \in installed[r] => "markitdown" \in installed[r]

\* C24: the provisioning steps happen in order in every runtime, and a handle
\* is in a caller's hands only when the convert function has been registered
\* in it; stated for invocations made one after another.
C24_StepsInOrderBeforeReturn ==
  ~overlapped =>
    /\ \A r \in Runtimes : InOrder(r)
    /\ \A c \in Calls :
         calls[c].py # NoEnv => "wrapper" \in installed[calls[c].py]

\* str ends with a space and the unit
EndsWithUnit(str, unit) ==
  /\ Len(str) > Len(unit) + 1
  /\ SubSeq(str, Len(str) - Len(unit), Len(str)) = << " " >> \o unit

\* C25: for every byte count the string formatSize returns ends with one of
\* the units B, KB, MB, GB, and the unit index it computes lies within the
\* four-element table.
C25_UnitWithinTable ==
  sizeText # << >> =>
    /\ \E u \in 1..Len(sizes) : EndsWithUnit(sizeText, sizes[u])
    /\ sizeBytes # << >> => FloorLog(sizeBytes) \in 0..(Len(sizes) - 1)

====
